---- MODULE Spec2Model ----
(***************************************************************************)
(* Model of the plant-care backend (src/app): the users table with its     *)
(* hash + ciphertext identity columns, JWT issuance and resolution, the    *)
(* user handlers of main.py, and the plant / comment handlers that return  *)
(* stored rows.  Time is counted in minutes.                               *)
(*                                                                         *)
(* create_user and edit_user are modelled step by step (one step per       *)
(* database round trip) in request slots, so that two requests served by   *)
(* different worker processes can interleave.  The other handlers issue    *)
(* their reads and their single write in one step.                         *)
(*                                                                         *)
(* The objects a worker process keeps in memory (the observability         *)
(* context, the ORM instance of an edit_user call, the SecurityManager)    *)
(* have specifications of their own.                                       *)
(***************************************************************************)
EXTENDS Naturals, FiniteSets, Sequences, TLC

VARIABLES
    users,          \* rows of table "users"        (models.User)
    plants,         \* rows of table "plants"       (models.Plant)
    comments,       \* rows of table "commentary"   (models.Comment)
    nextUserId,     \* next value of the users.id sequence
    nextPlantId,    \* next value of the plants.id sequence
    nextCommentId,  \* next value of the commentary.id sequence
    held,           \* the token the client holds (login's last), with the id it was issued to
    now,            \* the clock (datetime.utcnow), in minutes
    ticks,          \* number of clock advances so far
    expire_minutes, \* settings.ACCESS_TOKEN_EXPIRE_MINUTES
    reqs,           \* in-flight create_user / edit_user requests
    resp,           \* the last response sent to a client
    current_user_id,  \* observability.current_user_id of the worker process
    calls,          \* requests on their way through the middlewares
    orm_user,       \* the models.User instance an edit_user call works on
    security_manager  \* the SecurityManager built from settings.ENCRYPTION_KEY

vars == <<users, plants, comments, nextUserId, nextPlantId, nextCommentId,
          held, now, ticks, expire_minutes, reqs, resp,
          current_user_id, calls, orm_user, security_manager>>

\* the objects in the memory of a worker process
memory == <<current_user_id, calls, orm_user, security_manager>>

store == <<users, plants, comments>>

----------------------------------------------------------------------------
(* Bounds and input sets *)

MaxUserId == 2
MaxPlantId == 1
MaxCommentId == 1
MaxTicks == 2

Emails == {"a@x.com", "b@x.com"}
\* username: str accepts any string, the empty one included (schemas.py 8)
Usernames == {"alice", ""}
Phones == {"0611"}
Passwords == {"pw1", "pw2"}
RegPasswords == {"pw1"}
ExpireChoices == {0, 1}
Reqs == {"r1", "r2"}

\* Python None, per type
None == "<None>"
NoId == 0
NoneBytes == <<>>

UserIds == 1..MaxUserId

----------------------------------------------------------------------------
(* Configuration (src/app/config.py) *)

SECRET_KEY == "your-secret-key"
ENCRYPTION_KEY == "plant-care-encryption-default-key-change-this-in-production"
DefaultExpireMinutes == 15

----------------------------------------------------------------------------
(* SecurityManager (src/app/security.py) *)

\* sha256(value).hexdigest(): a deterministic, collision-free digest
hash_value(value) ==
    IF value = None THEN NoneBytes ELSE <<"sha256", value>>

\* Fernet(key).encrypt(value): a token bound to the key
encrypt_value(value) ==
    IF value = None THEN NoneBytes ELSE <<"fernet", ENCRYPTION_KEY, value>>

\* Fernet(key).decrypt(token): InvalidToken unless produced under the same key
decrypt_value(encrypted_value) ==
    IF encrypted_value = NoneBytes THEN None
    ELSE IF Len(encrypted_value) = 3 /\ encrypted_value[1] = "fernet"
            /\ encrypted_value[2] = ENCRYPTION_KEY
         THEN encrypted_value[3]
         ELSE "<InvalidToken>"

----------------------------------------------------------------------------
(* Passwords and tokens (src/app/auth.py) *)

get_password_hash(password) == <<"bcrypt", password>>

verify_password(plain_password, hashed_password) ==
    hashed_password = <<"bcrypt", plain_password>>

\* if expires_delta: now + expires_delta  else: now + 15 minutes.
\* timedelta(0) is falsy, so a zero delta takes the else branch.
create_access_token(sub, expires_delta) ==
    [sub |-> sub,
     exp |-> IF expires_delta # 0 THEN now + expires_delta
             ELSE now + DefaultExpireMinutes,
     key |-> SECRET_KEY]

\* (mutant) the expiry compared with the clock plus the default lifetime
jwt_decode_ahead(token) ==
    /\ token.key = SECRET_KEY
    /\ ~(token.exp < now + DefaultExpireMinutes)

\* jwt.decode: the signature must verify under SECRET_KEY and the token must
\* not be expired; python-jose raises ExpiredSignatureError when exp < now.
jwt_decode_ok(token) ==
    /\ token.key = SECRET_KEY
    /\ ~(token.exp < now)

\* db.query(User).filter(User.email_hash == h).first()
UsersByEmailHash(h) == {u \in users : u.email_hash = h}
UsersByUsernameHash(h) == {u \in users : u.username_hash = h}
UsersById(id) == {u \in users : u.id = id}

\* schemas.User built from a row
UserView(u) ==
    [id |-> u.id,
     email |-> decrypt_value(u.email_encrypted),
     username |-> decrypt_value(u.username_encrypted),
     phone |-> decrypt_value(u.phone_encrypted),
     is_active |-> u.is_active,
     is_botanist |-> u.is_botanist]

NoUser == [id |-> NoId]

\* (mutant) the subject looked up in the username_hash column
get_current_user_by_username(token) ==
    IF ~jwt_decode_ok(token) \/ token.sub = None THEN NoUser
    ELSE LET found == UsersByUsernameHash(hash_value(token.sub)) IN
         IF found = {} THEN NoUser
         ELSE UserView(CHOOSE u \in found : TRUE)

\* get_current_user: the resolved schemas.User, or NoUser for the 401
get_current_user(token) ==
    IF ~jwt_decode_ok(token) \/ token.sub = None THEN NoUser
    ELSE LET found == UsersByEmailHash(hash_value(token.sub)) IN
         IF found = {} THEN NoUser
         ELSE UserView(CHOOSE u \in found : TRUE)

----------------------------------------------------------------------------
(* Responses *)

Response(op, status, body, args, caller, fault) ==
    [op |-> op, status |-> status, body |-> body, args |-> args,
     caller |-> caller, fault |-> fault]

\* raise HTTPException(status_code, detail)
HTTPError(op, status, detail, args, caller) ==
    Response(op, status, [detail |-> detail], args, caller, "none")

\* raise credentials_exception in get_current_user
CredentialsError(op, args) ==
    Response(op, 401,
             [detail |-> "Could not validate credentials",
              headers |-> "WWW-Authenticate: Bearer"],
             args, NoId, "none")

\* an exception no handler catches: the server answers 500
Unhandled(op, exc, args, caller) ==
    Response(op, 500, [detail |-> "Internal Server Error"], args, caller, exc)

NoResponse == Response("none", 0, [detail |-> "none"], [none |-> TRUE], NoId, "none")

----------------------------------------------------------------------------
(* Clients *)

\* a token signed with a key other than SECRET_KEY
ForgedTokens ==
    {[sub |-> "a@x.com", exp |-> now + DefaultExpireMinutes, key |-> "attacker-key"]}

NoGrant == [tok |-> [sub |-> None, exp |-> 0, key |-> "none"], uid |-> NoId,
            email |-> None]

IssuedTokens == IF held = NoGrant THEN {} ELSE {held.tok}

\* the bearer tokens a client may present
Presentable == IssuedTokens \cup ForgedTokens

----------------------------------------------------------------------------
(* Unique indexes of the users table (models.py, migration b167118927ca):   *)
(* ix_users_email_hash and ix_users_username_hash are unique,               *)
(* ix_users_phone_hash is not.                                              *)

UniqueOk(rows) ==
    \A u, v \in rows :
        u.id # v.id => /\ u.email_hash # v.email_hash
                       /\ u.username_hash # v.username_hash

----------------------------------------------------------------------------
(* In-flight requests *)

IdleReq == [pc |-> "idle", cu |-> NoUser, user_id |-> NoId,
            email |-> None, username |-> None]

InFlightCreates ==
    Cardinality({r \in Reqs : reqs[r].pc \in {"check_username", "create_commit"}})

----------------------------------------------------------------------------
(* POST /token  (main.py login) *)

LoginFailure(args) ==
    Response("login", 401,
             [detail |-> "Incorrect email or password",
              headers |-> "WWW-Authenticate: Bearer"],
             args, NoId, "none")

\* (mutant) an unknown email reported apart from a wrong password
LoginOutcomeTelling(email, password) ==
    LET args == [email |-> email, password |-> password]
        found == UsersByEmailHash(hash_value(email))
    IN  IF found = {}
        THEN HTTPError("login", 404, "User not found", args, NoId)
        ELSE LET user == CHOOSE u \in found : TRUE IN
             IF ~verify_password(password, user.hashed_password)
             THEN LoginFailure(args)
             ELSE Response("login", 200,
                      [access_token |->
                           create_access_token(decrypt_value(user.email_encrypted),
                                               expire_minutes),
                       token_type |-> "bearer"],
                      args, user.id, "none")

\* the response of login for a form (username = email, password)
LoginOutcome(email, password) ==
    LET args == [email |-> email, password |-> password]
        found == UsersByEmailHash(hash_value(email))
    IN  IF found = {} THEN LoginFailure(args)
        ELSE LET user == CHOOSE u \in found : TRUE IN
             IF ~verify_password(password, user.hashed_password)
             THEN LoginFailure(args)
             ELSE Response("login", 200,
                      [access_token |->
                           create_access_token(decrypt_value(user.email_encrypted),
                                               expire_minutes),
                       token_type |-> "bearer"],
                      args, user.id, "none")

Login ==
    \E email \in Emails, password \in Passwords :
        LET out == LoginOutcome(email, password) IN
        /\ resp' = out
        /\ held' = IF out.status = 200
                   THEN [tok |-> out.body.access_token, uid |-> out.caller,
                         email |-> email]
                   ELSE held
        /\ UNCHANGED <<users, plants, comments, nextUserId, nextPlantId,
                       nextCommentId, now, ticks, expire_minutes, reqs>>

----------------------------------------------------------------------------
(* POST /users/  (main.py create_user) *)

\* (mutant) the email pre-check querying the username_hash column
EmailTakenWrongColumn(email) == UsersByUsernameHash(hash_value(email)) # {}

\* db.query(User).filter(User.email_hash == hash_value(email)).first()
EmailTaken(email) == UsersByEmailHash(hash_value(email)) # {}

\* db.query(User).filter(User.username_hash == hash_value(username)).first()
UsernameTaken(username) == UsersByUsernameHash(hash_value(username)) # {}

\* lines 164-169: the email pre-check
CreateCheckEmail(r) ==
    /\ reqs[r].pc = "idle"
    /\ nextUserId + InFlightCreates <= MaxUserId
    /\ \E email \in Emails :
         IF EmailTaken(email)
         THEN /\ resp' = HTTPError("create_user", 400, "Email already registered",
                                   [email |-> email], NoId)
              /\ reqs' = reqs
         ELSE /\ resp' = NoResponse
              /\ reqs' = [reqs EXCEPT ![r] =
                             [IdleReq EXCEPT !.pc = "check_username", !.email = email]]
    /\ UNCHANGED <<users, plants, comments, nextUserId, nextPlantId,
                   nextCommentId, held, now, ticks, expire_minutes>>

\* lines 171-176: the username pre-check
CreateCheckUsername(r) ==
    /\ reqs[r].pc = "check_username"
    /\ \E username \in Usernames :
         IF UsernameTaken(username)
         THEN /\ resp' = HTTPError("create_user", 400, "Username already taken",
                                   [email |-> reqs[r].email, username |-> username],
                                   NoId)
              /\ reqs' = [reqs EXCEPT ![r] = IdleReq]
         ELSE /\ resp' = NoResponse
              /\ reqs' = [reqs EXCEPT ![r].pc = "create_commit",
                                      ![r].username = username]
    /\ UNCHANGED <<users, plants, comments, nextUserId, nextPlantId,
                   nextCommentId, held, now, ticks, expire_minutes>>

\* lines 179-189: the row create_user builds
NewUserRow(id, email, username, phone, password, is_botanist) ==
    [id |-> id,
     email_hash |-> hash_value(email),
     username_hash |-> hash_value(username),
     phone_hash |-> hash_value(phone),
     email_encrypted |-> encrypt_value(email),
     username_encrypted |-> encrypt_value(username),
     phone_encrypted |-> encrypt_value(phone),
     hashed_password |-> get_password_hash(password),
     is_botanist |-> is_botanist,
     is_active |-> TRUE]

\* (mutant) an INSERT or UPDATE on a table without the unique indexes
CommitAllowedNoIndex(rows) == TRUE

\* db.commit() of an INSERT or UPDATE on users: the unique indexes decide
CommitAllowed(rows) == UniqueOk(rows)

\* lines 191-209: insert, commit, refresh, respond
CreateCommit(r) ==
    /\ reqs[r].pc = "create_commit"
    /\ \E phone \in Phones, password \in RegPasswords, is_botanist \in {FALSE} :
         LET args == [email |-> reqs[r].email, username |-> reqs[r].username,
                      phone |-> phone, password |-> password,
                      is_botanist |-> is_botanist]
             row == NewUserRow(nextUserId, reqs[r].email, reqs[r].username,
                               phone, password, is_botanist)
         IN  IF CommitAllowed(users \cup {row})
             THEN /\ users' = users \cup {row}
                  /\ nextUserId' = nextUserId + 1
                  /\ resp' = Response("create_user", 200, UserView(row), args,
                                      NoId, "none")
             ELSE /\ UNCHANGED <<users, nextUserId>>
                  /\ resp' = Unhandled("create_user", "IntegrityError", args, NoId)
    /\ reqs' = [reqs EXCEPT ![r] = IdleReq]
    /\ UNCHANGED <<plants, comments, nextPlantId, nextCommentId, held, now,
                   ticks, expire_minutes>>

----------------------------------------------------------------------------
(* PUT /users/{user_id}  (main.py edit_user) *)

EmailArgs == Emails \cup {None}
UsernameArgs == Usernames \cup {None}
PhoneArgs == Phones \cup {"0622", None}
\* is_botanist: bool = None, as the query string carries it
BoolArgs == {None, "true", "false"}

\* Depends(auth.get_current_user): the caller is resolved before the body runs
EditAuth(r) ==
    /\ reqs[r].pc = "idle"
    /\ \E token \in Presentable :
         LET current_user == get_current_user(token) IN
         IF current_user = NoUser
         THEN /\ resp' = CredentialsError("edit_user", [token |-> token])
              /\ reqs' = reqs
         ELSE /\ resp' = NoResponse
              /\ reqs' = [reqs EXCEPT ![r] =
                             [IdleReq EXCEPT !.pc = "edit_body", !.cu = current_user]]
    /\ UNCHANGED <<users, plants, comments, nextUserId, nextPlantId,
                   nextCommentId, held, now, ticks, expire_minutes>>

\* the truth value Python gives a str | None in "if email and ...":
\* None and the empty string are false
Truthy(value) == value # None /\ value # ""

\* lines 240-245: if email and email != current_user.email: ... existing_user
EditEmailConflict(current_user, user_id, email) ==
    /\ Truthy(email)
    /\ email # current_user.email
    /\ \E existing_user \in UsersByEmailHash(hash_value(email)) :
           existing_user.id # user_id

\* lines 247-252
EditUsernameConflict(current_user, user_id, username) ==
    /\ Truthy(username)
    /\ username # current_user.username
    /\ \E existing_user \in UsersByUsernameHash(hash_value(username)) :
           existing_user.id # user_id

\* (mutant) edit_user without the caller-equals-target check
EditBodyAnyTarget(r) ==
    /\ reqs[r].pc = "edit_body"
    /\ \E user_id \in UserIds, email \in EmailArgs, username \in UsernameArgs :
         LET cu == reqs[r].cu
             args == [user_id |-> user_id, email |-> email, username |-> username]
             fail(status, detail) ==
                 /\ resp' = HTTPError("edit_user", status, detail, args, cu.id)
                 /\ reqs' = [reqs EXCEPT ![r] = IdleReq]
         IN  IF UsersById(user_id) = {}
             THEN fail(404, "User not found")
             ELSE IF EditEmailConflict(cu, user_id, email)
             THEN fail(400, "Email already registered")
             ELSE IF EditUsernameConflict(cu, user_id, username)
             THEN fail(400, "Username already taken")
             ELSE /\ resp' = NoResponse
                  /\ reqs' = [reqs EXCEPT ![r] =
                                 [IdleReq EXCEPT !.pc = "edit_commit",
                                                 !.user_id = user_id,
                                                 !.email = email,
                                                 !.username = username]]
    /\ UNCHANGED <<users, plants, comments, nextUserId, nextPlantId,
                   nextCommentId, held, now, ticks, expire_minutes>>

\* lines 226-252: the authorization check, the row lookup, the pre-checks
EditBody(r) ==
    /\ reqs[r].pc = "edit_body"
    /\ \E user_id \in UserIds, email \in EmailArgs, username \in UsernameArgs :
         LET cu == reqs[r].cu
             args == [user_id |-> user_id, email |-> email, username |-> username]
             fail(status, detail) ==
                 /\ resp' = HTTPError("edit_user", status, detail, args, cu.id)
                 /\ reqs' = [reqs EXCEPT ![r] = IdleReq]
         IN  IF user_id # cu.id
             THEN fail(403, "Not authorized to update other users")
             ELSE IF UsersById(user_id) = {}
             THEN fail(404, "User not found")
             ELSE IF EditEmailConflict(cu, user_id, email)
             THEN fail(400, "Email already registered")
             ELSE IF EditUsernameConflict(cu, user_id, username)
             THEN fail(400, "Username already taken")
             ELSE /\ resp' = NoResponse
                  /\ reqs' = [reqs EXCEPT ![r] =
                                 [IdleReq EXCEPT !.pc = "edit_commit",
                                                 !.user_id = user_id,
                                                 !.email = email,
                                                 !.username = username]]
    /\ UNCHANGED <<users, plants, comments, nextUserId, nextPlantId,
                   nextCommentId, held, now, ticks, expire_minutes>>

\* (mutant) the email branch assigning email_hash but not email_encrypted
ApplyEditHashOnly(db_user, email, username, phone, is_botanist) ==
    [db_user EXCEPT
        !.email_hash = IF email # None THEN hash_value(email) ELSE @,
        !.username_hash = IF username # None THEN hash_value(username) ELSE @,
        !.username_encrypted = IF username # None THEN encrypt_value(username) ELSE @,
        !.phone_hash = IF phone # None THEN hash_value(phone) ELSE @,
        !.phone_encrypted = IF phone # None THEN encrypt_value(phone) ELSE @]

\* (mutant) the email branch assigning email_encrypted but not email_hash
ApplyEditCipherOnly(db_user, email, username, phone, is_botanist) ==
    [db_user EXCEPT
        !.email_encrypted = IF email # None THEN encrypt_value(email) ELSE @,
        !.username_hash = IF username # None THEN hash_value(username) ELSE @,
        !.username_encrypted = IF username # None THEN encrypt_value(username) ELSE @,
        !.phone_hash = IF phone # None THEN hash_value(phone) ELSE @,
        !.phone_encrypted = IF phone # None THEN encrypt_value(phone) ELSE @]

\* (mutant) every column assigned from its parameter, omitted or not
ApplyEditOverwriting(db_user, email, username, phone, is_botanist) ==
    [db_user EXCEPT
        !.email_hash = hash_value(email),
        !.email_encrypted = encrypt_value(email),
        !.username_hash = hash_value(username),
        !.username_encrypted = encrypt_value(username),
        !.phone_hash = hash_value(phone),
        !.phone_encrypted = encrypt_value(phone),
        !.is_botanist = (is_botanist = "true")]

\* lines 254-265: the assignments to db_user
ApplyEdit(db_user, email, username, phone, is_botanist) ==
    [db_user EXCEPT
        !.email_hash = IF email # None THEN hash_value(email) ELSE @,
        !.email_encrypted = IF email # None THEN encrypt_value(email) ELSE @,
        !.username_hash = IF username # None THEN hash_value(username) ELSE @,
        !.username_encrypted = IF username # None THEN encrypt_value(username) ELSE @,
        !.phone_hash = IF phone # None THEN hash_value(phone) ELSE @,
        !.phone_encrypted = IF phone # None THEN encrypt_value(phone) ELSE @,
        !.is_botanist = IF is_botanist # None THEN (is_botanist = "true") ELSE @]

\* lines 267-279: commit, refresh, respond
EditCommit(r) ==
    /\ reqs[r].pc = "edit_commit"
    /\ \E phone \in PhoneArgs, is_botanist \in BoolArgs :
         LET user_id == reqs[r].user_id
             args == [user_id |-> user_id, email |-> reqs[r].email,
                      username |-> reqs[r].username, phone |-> phone,
                      is_botanist |-> is_botanist]
         IN  IF UsersById(user_id) = {}
             THEN \* the row was deleted by another request in the meantime
                  /\ users' = users
                  /\ resp' = Unhandled("edit_user", "StaleDataError", args, user_id)
             ELSE LET db_user == CHOOSE u \in UsersById(user_id) : TRUE
                      updated == ApplyEdit(db_user, reqs[r].email, reqs[r].username,
                                           phone, is_botanist)
                      rows == (users \ {db_user}) \cup {updated}
                  IN  IF CommitAllowed(rows)
                      THEN /\ users' = rows
                           /\ resp' = Response("edit_user", 200, UserView(updated),
                                               args, user_id, "none")
                      ELSE /\ users' = users
                           /\ resp' = Unhandled("edit_user", "IntegrityError", args,
                                                user_id)
    /\ reqs' = [reqs EXCEPT ![r] = IdleReq]
    /\ UNCHANGED <<plants, comments, nextUserId, nextPlantId, nextCommentId,
                   held, now, ticks, expire_minutes>>

----------------------------------------------------------------------------
(* GET /users/me/  (main.py read_users_me) *)

ReadUsersMe ==
    \E token \in Presentable :
        LET current_user == get_current_user(token) IN
        /\ resp' = IF current_user = NoUser
                   THEN CredentialsError("read_users_me", [token |-> token])
                   ELSE Response("read_users_me", 200, current_user,
                                 [token |-> token], current_user.id, "none")
        /\ UNCHANGED <<users, plants, comments, nextUserId, nextPlantId,
                       nextCommentId, held, now, ticks, expire_minutes, reqs>>

----------------------------------------------------------------------------
(* Serialisation of ORM objects returned without a response_model:          *)
(* jsonable_encoder falls back to vars(obj), i.e. every loaded column and   *)
(* every loaded relationship.                                               *)

OrmUserJson(u) == u

\* Plant.owner is lazy="joined" (models.py 78-81): loaded with the plant
OrmPlantJson(p) ==
    [id |-> p.id, name |-> p.name, location |-> p.location,
     care_instructions |-> p.care_instructions, photo_url |-> p.photo_url,
     owner_id |-> p.owner_id, in_care_id |-> p.in_care_id,
     plant_sitting |-> p.plant_sitting,
     owner |-> IF UsersById(p.owner_id) = {} THEN NoUser
               ELSE OrmUserJson(CHOOSE u \in UsersById(p.owner_id) : TRUE)]

\* Comment.user is lazy="joined" (models.py 107): loaded with the comment
OrmCommentJson(c) ==
    [id |-> c.id, plant_id |-> c.plant_id, user_id |-> c.user_id,
     comment |-> c.comment, time_stamp |-> c.time_stamp,
     user |-> IF UsersById(c.user_id) = {} THEN NoUser
              ELSE OrmUserJson(CHOOSE u \in UsersById(c.user_id) : TRUE)]

----------------------------------------------------------------------------
(* DELETE /users/  (main.py delete_user) *)

\* (mutant) a database that does not enforce the foreign keys
UserReferencedUnchecked(id) == FALSE

\* the foreign keys plants.in_care_id and plants.plant_sitting (PostgreSQL,
\* config.py DATABASE_URL) refuse the DELETE while a plant references the row
UserReferenced(id) ==
    \E p \in plants : p.in_care_id = id \/ p.plant_sitting = id

DeleteUser ==
    \E token \in Presentable, id \in UserIds :
        LET current_user == get_current_user(token)
            args == [token |-> token, id |-> id]
        IN
        /\ IF current_user = NoUser
           THEN /\ resp' = CredentialsError("delete_user", args)
                /\ UNCHANGED <<users, plants, comments>>
           ELSE IF UsersById(id) = {}
           THEN /\ resp' = HTTPError("delete_user", 404, "User not found", args,
                                     current_user.id)
                /\ UNCHANGED <<users, plants, comments>>
           ELSE IF UserReferenced(id)
           THEN /\ resp' = Unhandled("delete_user", "IntegrityError", args,
                                     current_user.id)
                /\ UNCHANGED <<users, plants, comments>>
           ELSE LET db_user == CHOOSE u \in UsersById(id) : TRUE IN
                /\ users' = users \ {db_user}
                \* User.comments cascades the delete (models.py 30-32)
                /\ comments' = {c \in comments : c.user_id # id}
                \* User.owned_plants has no delete cascade: owner_id is set to NULL
                /\ plants' = {IF p.owner_id = id THEN [p EXCEPT !.owner_id = NoId]
                              ELSE p : p \in plants}
                /\ resp' = Response("delete_user", 200, OrmUserJson(db_user), args,
                                    current_user.id, "none")
        /\ UNCHANGED <<nextUserId, nextPlantId, nextCommentId, held, now, ticks,
                       expire_minutes, reqs>>

----------------------------------------------------------------------------
(* POST /plants/  (main.py create_plant) *)

PlantNames == {"fern"}
Locations == {"kitchen"}
PhotoNames == {"fern.jpg"}
PlantIds == 1..MaxPlantId
CareArgs == UserIds \cup {NoId}

base_url == "localhost:8000"

\* (mutant) the lookup by id narrowed to plants nobody cares for yet
PlantsByIdNotInCare(id) == {p \in plants : p.id = id /\ p.in_care_id = NoId}

\* db.query(Plant).filter(Plant.id == plant_id).first()
PlantsById(id) == {p \in plants : p.id = id}

CreatePlant ==
    /\ nextPlantId <= MaxPlantId
    /\ \E token \in Presentable, name \in PlantNames, location \in Locations,
          photo \in PhotoNames, in_care_id \in CareArgs :
        LET current_user == get_current_user(token)
            args == [token |-> token, name |-> name, location |-> location,
                     photo |-> photo, in_care_id |-> in_care_id]
            db_plant == [id |-> nextPlantId, name |-> name, location |-> location,
                         care_instructions |-> None,
                         photo_url |-> <<"photos/", current_user.id, "_", photo>>,
                         owner_id |-> current_user.id,
                         in_care_id |-> in_care_id,
                         plant_sitting |-> NoId]
        IN
        IF current_user = NoUser
        THEN /\ resp' = CredentialsError("create_plant", args)
             /\ UNCHANGED <<plants, nextPlantId>>
        ELSE IF in_care_id # NoId /\ UsersById(in_care_id) = {}
        THEN \* foreign key plants.in_care_id -> users.id
             /\ resp' = Unhandled("create_plant", "IntegrityError", args,
                                  current_user.id)
             /\ UNCHANGED <<plants, nextPlantId>>
        ELSE /\ plants' = plants \cup {db_plant}
             /\ nextPlantId' = nextPlantId + 1
             /\ resp' = [Response("create_plant", 200, <<>>, args,
                                  current_user.id, "none")
                            EXCEPT !.body = OrmPlantJson(db_plant)]
    /\ UNCHANGED <<users, comments, nextUserId, nextCommentId, held, now, ticks,
                   expire_minutes, reqs>>

----------------------------------------------------------------------------
(* PUT /plants/{plant_id}  (main.py update_plant) *)

NameArgs == {"rose", None}
LocationArgs == Locations \cup {None}
PhotoArgs == PhotoNames \cup {None}

\* lines 370-373: the plant filtered by id and by owner_id == current_user.id
OwnedPlantsById(plant_id, current_user) ==
    {p \in plants : p.id = plant_id /\ p.owner_id = current_user.id}

\* lines 384-410: the assignments to plant
ApplyPlantUpdate(plant, current_user, name, location, photo, in_care_id) ==
    [plant EXCEPT
        !.name = IF name # None THEN name ELSE @,
        !.location = IF location # None THEN location ELSE @,
        !.in_care_id = IF in_care_id # NoId THEN in_care_id ELSE @,
        !.photo_url = IF photo # None
                      THEN <<base_url, "/photos/", current_user.id, "_", photo>>
                      ELSE @]

UpdatePlant ==
    \E token \in Presentable, plant_id \in PlantIds, name \in NameArgs,
       location \in LocationArgs, photo \in PhotoArgs, in_care_id \in CareArgs :
        LET current_user == get_current_user(token)
            args == [token |-> token, plant_id |-> plant_id, name |-> name,
                     location |-> location, photo |-> photo,
                     in_care_id |-> in_care_id]
            found == OwnedPlantsById(plant_id, current_user)
        IN
        /\ IF current_user = NoUser
           THEN /\ resp' = CredentialsError("update_plant", args)
                /\ plants' = plants
           ELSE IF found = {}
           THEN /\ resp' = HTTPError("update_plant", 404,
                                     "Plant not found or not owned by current user",
                                     args, current_user.id)
                /\ plants' = plants
           ELSE IF in_care_id # NoId /\ UsersById(in_care_id) = {}
           THEN \* foreign key plants.in_care_id -> users.id
                /\ resp' = Unhandled("update_plant", "IntegrityError", args,
                                     current_user.id)
                /\ plants' = plants
           ELSE LET plant == CHOOSE p \in found : TRUE
                    updated == ApplyPlantUpdate(plant, current_user, name, location,
                                                photo, in_care_id)
                IN  /\ plants' = (plants \ {plant}) \cup {updated}
                    /\ resp' = [Response("update_plant", 200, <<>>, args,
                                         current_user.id, "none")
                                   EXCEPT !.body = OrmPlantJson(updated)]
        /\ UNCHANGED <<users, comments, nextUserId, nextPlantId, nextCommentId,
                       held, now, ticks, expire_minutes, reqs>>

----------------------------------------------------------------------------
(* DELETE /plants  (main.py delete_plant) *)

\* the route has no get_current_user dependency: whatever Authorization header
\* the request carries is never read, and no principal is resolved
\* (mutant) the plant deleted and its comments left in place
DeletePlantKeepingComments ==
    \E plant_id \in PlantIds :
        LET args == [plant_id |-> plant_id] IN
        /\ IF PlantsById(plant_id) = {}
           THEN /\ resp' = HTTPError("delete_plant", 404, "The plant was not found",
                                     args, NoId)
                /\ UNCHANGED <<plants, comments>>
           ELSE LET plant == CHOOSE p \in PlantsById(plant_id) : TRUE IN
                /\ plants' = plants \ {plant}
                /\ comments' = comments
                /\ resp' = [Response("delete_plant", 200, <<>>, args, NoId, "none")
                               EXCEPT !.body = OrmPlantJson(plant)]
        /\ UNCHANGED <<users, nextUserId, nextPlantId, nextCommentId, held, now,
                       ticks, expire_minutes, reqs>>

DeletePlant ==
    \E plant_id \in PlantIds :
        LET args == [plant_id |-> plant_id] IN
        /\ IF PlantsById(plant_id) = {}
           THEN /\ resp' = HTTPError("delete_plant", 404, "The plant was not found",
                                     args, NoId)
                /\ UNCHANGED <<plants, comments>>
           ELSE LET plant == CHOOSE p \in PlantsById(plant_id) : TRUE IN
                /\ plants' = plants \ {plant}
                \* Plant.comments cascades the delete (models.py 85-87)
                /\ comments' = {c \in comments : c.plant_id # plant_id}
                /\ resp' = [Response("delete_plant", 200, <<>>, args, NoId, "none")
                               EXCEPT !.body = OrmPlantJson(plant)]
        /\ UNCHANGED <<users, nextUserId, nextPlantId, nextCommentId, held, now,
                       ticks, expire_minutes, reqs>>

----------------------------------------------------------------------------
(* GET /all_plants/  (main.py list_all_plants_except_users) *)

\* lines 469-472: photo_url is prefixed on the loaded objects, never committed
WithBaseUrl(json) ==
    [json EXCEPT !.photo_url = IF @ # <<>> THEN <<base_url, "/">> \o @ ELSE @]

ListAllPlants ==
    \E token \in Presentable :
        LET current_user == get_current_user(token)
            args == [token |-> token]
            \* owner_id != :id  (a NULL owner_id never satisfies the comparison)
            found == {p \in plants : p.owner_id # NoId /\ p.owner_id # current_user.id}
        IN
        /\ resp' = IF current_user = NoUser
                   THEN CredentialsError("list_all_plants", args)
                   ELSE Response("list_all_plants", 200,
                                 {WithBaseUrl(OrmPlantJson(p)) : p \in found},
                                 args, current_user.id, "none")
        /\ UNCHANGED <<users, plants, comments, nextUserId, nextPlantId,
                       nextCommentId, held, now, ticks, expire_minutes, reqs>>

----------------------------------------------------------------------------
(* PUT /plants/{plant_id}/start-care  (main.py start_plant_care) *)

StartPlantCare ==
    \E token \in Presentable, plant_id \in PlantIds :
        LET current_user == get_current_user(token)
            args == [token |-> token, plant_id |-> plant_id]
        IN
        /\ IF current_user = NoUser
           THEN /\ resp' = CredentialsError("start_plant_care", args)
                /\ plants' = plants
           ELSE IF PlantsById(plant_id) = {}
           THEN /\ resp' = HTTPError("start_plant_care", 404, "Plant not found",
                                     args, current_user.id)
                /\ plants' = plants
           ELSE LET plant == CHOOSE p \in PlantsById(plant_id) : TRUE
                    updated == [plant EXCEPT !.in_care_id = current_user.id]
                IN  /\ plants' = (plants \ {plant}) \cup {updated}
                    /\ resp' = [Response("start_plant_care", 200, <<>>, args,
                                         current_user.id, "none")
                                   EXCEPT !.body = OrmPlantJson(updated)]
        /\ UNCHANGED <<users, comments, nextUserId, nextPlantId, nextCommentId,
                       held, now, ticks, expire_minutes, reqs>>

----------------------------------------------------------------------------
(* PUT /plants/{plant_id}/end-care  (main.py end_plant_care) *)

\* (mutant) end-care without the test that the caller is the caretaker
EndPlantCareAnyCaller ==
    \E token \in Presentable, plant_id \in PlantIds :
        LET current_user == get_current_user(token)
            args == [token |-> token, plant_id |-> plant_id]
            found == PlantsById(plant_id)
        IN
        /\ IF current_user = NoUser
           THEN /\ resp' = CredentialsError("end_plant_care", args)
                /\ plants' = plants
           ELSE IF found = {}
           THEN /\ resp' = HTTPError("end_plant_care", 404,
                                     "Plant not found or not caring by user",
                                     args, current_user.id)
                /\ plants' = plants
           ELSE LET plant == CHOOSE p \in found : TRUE
                    updated == [plant EXCEPT !.in_care_id = NoId,
                                             !.plant_sitting = NoId]
                IN  /\ plants' = (plants \ {plant}) \cup {updated}
                    /\ resp' = [Response("end_plant_care", 200, <<>>, args,
                                         current_user.id, "none")
                                   EXCEPT !.body = OrmPlantJson(updated)]
        /\ UNCHANGED <<users, comments, nextUserId, nextPlantId, nextCommentId,
                       held, now, ticks, expire_minutes, reqs>>

EndPlantCare ==
    \E token \in Presentable, plant_id \in PlantIds :
        LET current_user == get_current_user(token)
            args == [token |-> token, plant_id |-> plant_id]
            \* not plant or plant.in_care_id != current_user.id
            found == {p \in PlantsById(plant_id) : p.in_care_id = current_user.id}
        IN
        /\ IF current_user = NoUser
           THEN /\ resp' = CredentialsError("end_plant_care", args)
                /\ plants' = plants
           ELSE IF found = {}
           THEN /\ resp' = HTTPError("end_plant_care", 404,
                                     "Plant not found or not caring by user",
                                     args, current_user.id)
                /\ plants' = plants
           ELSE LET plant == CHOOSE p \in found : TRUE
                    updated == [plant EXCEPT !.in_care_id = NoId,
                                             !.plant_sitting = NoId]
                IN  /\ plants' = (plants \ {plant}) \cup {updated}
                    /\ resp' = [Response("end_plant_care", 200, <<>>, args,
                                         current_user.id, "none")
                                   EXCEPT !.body = OrmPlantJson(updated)]
        /\ UNCHANGED <<users, comments, nextUserId, nextPlantId, nextCommentId,
                       held, now, ticks, expire_minutes, reqs>>

----------------------------------------------------------------------------
(* GET /care-requests/  (main.py list_care_requests) *)

ListCareRequests ==
    \E token \in Presentable :
        LET current_user == get_current_user(token)
            args == [token |-> token]
            \* in_care_id != None and owner_id != :id  (a NULL owner_id never
            \* satisfies the comparison)
            care_requests == {p \in plants : /\ p.in_care_id # NoId
                                             /\ p.owner_id # NoId
                                             /\ p.owner_id # current_user.id}
        IN
        /\ resp' = IF current_user = NoUser
                   THEN CredentialsError("list_care_requests", args)
                   ELSE Response("list_care_requests", 200,
                                 {WithBaseUrl(OrmPlantJson(p)) : p \in care_requests},
                                 args, current_user.id, "none")
        /\ UNCHANGED <<users, plants, comments, nextUserId, nextPlantId,
                       nextCommentId, held, now, ticks, expire_minutes, reqs>>

----------------------------------------------------------------------------
(* POST /comments/  (main.py create_comment) *)

CommentTexts == {"nice"}

CreateComment ==
    /\ nextCommentId <= MaxCommentId
    /\ \E token \in Presentable, plant_id \in PlantIds, comment \in CommentTexts :
        LET current_user == get_current_user(token)
            args == [token |-> token, plant_id |-> plant_id, comment |-> comment]
            db_comment == [id |-> nextCommentId, plant_id |-> plant_id,
                           user_id |-> current_user.id, comment |-> comment,
                           time_stamp |-> now]
        IN
        IF current_user = NoUser
        THEN /\ resp' = CredentialsError("create_comment", args)
             /\ UNCHANGED <<comments, nextCommentId>>
        ELSE IF PlantsById(plant_id) = {}
        THEN /\ resp' = HTTPError("create_comment", 404, "Plant not found", args,
                                  current_user.id)
             /\ UNCHANGED <<comments, nextCommentId>>
        ELSE /\ comments' = comments \cup {db_comment}
             /\ nextCommentId' = nextCommentId + 1
             /\ resp' = [Response("create_comment", 200, <<>>, args,
                                  current_user.id, "none")
                            EXCEPT !.body = OrmCommentJson(db_comment)]
    /\ UNCHANGED <<users, plants, nextUserId, nextPlantId, held, now, ticks,
                   expire_minutes, reqs>>

----------------------------------------------------------------------------
(* GET /plants/{plant_id}/comments/  (main.py get_plant_comments) *)

\* the route has no get_current_user dependency
GetPlantComments ==
    \E plant_id \in PlantIds :
        LET args == [plant_id |-> plant_id] IN
        /\ resp' = IF PlantsById(plant_id) = {}
                   THEN HTTPError("get_plant_comments", 404, "Plant not found",
                                  args, NoId)
                   ELSE Response("get_plant_comments", 200,
                                 {OrmCommentJson(c) :
                                     c \in {d \in comments : d.plant_id = plant_id}},
                                 args, NoId, "none")
        /\ UNCHANGED <<users, plants, comments, nextUserId, nextPlantId,
                       nextCommentId, held, now, ticks, expire_minutes, reqs>>

----------------------------------------------------------------------------
(* PUT /comments/{comment_id}  (main.py update_comment) *)

CommentIds == 1..MaxCommentId
NewTexts == {"edited"}
CommentsById(id) == {c \in comments : c.id = id}

\* (mutant) the author test widened to the owner of the plant
MayUpdateCommentOrOwner(db_comment, current_user) ==
    \/ db_comment.user_id = current_user.id
    \/ \E p \in PlantsById(db_comment.plant_id) : p.owner_id = current_user.id

\* line 630: if db_comment.user_id != current_user.id: 403
MayUpdateComment(db_comment, current_user) ==
    db_comment.user_id = current_user.id

UpdateComment ==
    \E token \in Presentable, comment_id \in CommentIds, comment_text \in NewTexts :
        LET current_user == get_current_user(token)
            args == [token |-> token, comment_id |-> comment_id,
                     comment_text |-> comment_text]
        IN
        /\ IF current_user = NoUser
           THEN /\ resp' = CredentialsError("update_comment", args)
                /\ comments' = comments
           ELSE IF CommentsById(comment_id) = {}
           THEN /\ resp' = HTTPError("update_comment", 404, "Comment not found",
                                     args, current_user.id)
                /\ comments' = comments
           ELSE LET db_comment == CHOOSE c \in CommentsById(comment_id) : TRUE
                    updated == [db_comment EXCEPT !.comment = comment_text]
                IN  IF ~MayUpdateComment(db_comment, current_user)
                    THEN /\ resp' = HTTPError("update_comment", 403,
                                        "Not authorized to update this comment",
                                        args, current_user.id)
                         /\ comments' = comments
                    ELSE /\ comments' = (comments \ {db_comment}) \cup {updated}
                         /\ resp' = [Response("update_comment", 200, <<>>, args,
                                              current_user.id, "none")
                                        EXCEPT !.body = OrmCommentJson(updated)]
        /\ UNCHANGED <<users, plants, nextUserId, nextPlantId, nextCommentId,
                       held, now, ticks, expire_minutes, reqs>>

----------------------------------------------------------------------------
(* DELETE /comments/{comment_id}  (main.py delete_comment) *)

\* (mutant) the plant owner's path dropped from the test
MayDeleteCommentAuthorOnly(db_comment, plant, current_user) ==
    db_comment.user_id = current_user.id

\* line 660: 403 if user_id != current_user.id and plant.owner_id != current_user.id
MayDeleteComment(db_comment, plant, current_user) ==
    \/ db_comment.user_id = current_user.id
    \/ plant.owner_id = current_user.id

DeleteComment ==
    \E token \in Presentable, comment_id \in CommentIds :
        LET current_user == get_current_user(token)
            args == [token |-> token, comment_id |-> comment_id]
        IN
        /\ IF current_user = NoUser
           THEN /\ resp' = CredentialsError("delete_comment", args)
                /\ comments' = comments
           ELSE IF CommentsById(comment_id) = {}
           THEN /\ resp' = HTTPError("delete_comment", 404, "Comment not found",
                                     args, current_user.id)
                /\ comments' = comments
           ELSE LET db_comment == CHOOSE c \in CommentsById(comment_id) : TRUE
                    \* commentary.plant_id is a non-null foreign key and a plant's
                    \* comments go with it, so the plant is found
                    plant == CHOOSE p \in PlantsById(db_comment.plant_id) : TRUE
                IN  IF ~MayDeleteComment(db_comment, plant, current_user)
                    THEN /\ resp' = HTTPError("delete_comment", 403,
                                        "Not authorized to delete this comment. Must be comment author or plant owner.",
                                        args, current_user.id)
                         /\ comments' = comments
                    ELSE /\ comments' = comments \ {db_comment}
                         /\ resp' = [Response("delete_comment", 200, <<>>, args,
                                              current_user.id, "none")
                                        EXCEPT !.body = OrmCommentJson(db_comment)]
        /\ UNCHANGED <<users, plants, nextUserId, nextPlantId, nextCommentId,
                       held, now, ticks, expire_minutes, reqs>>

----------------------------------------------------------------------------
(* The clock *)

ClockSteps == {1, DefaultExpireMinutes}

Tick ==
    /\ ticks < MaxTicks
    /\ \E d \in ClockSteps : now' = now + d
    /\ ticks' = ticks + 1
    /\ resp' = NoResponse
    /\ UNCHANGED <<users, plants, comments, nextUserId, nextPlantId,
                   nextCommentId, held, expire_minutes, reqs>>

----------------------------------------------------------------------------
(* Specifications *)

----------------------------------------------------------------------------
(* Objects in the memory of a worker process: the observability context,   *)
(* the ORM instance of a handler, the SecurityManager.                      *)

\* str(user.id)
str(id) == CASE id = 1 -> "1" [] id = 2 -> "2" [] id = 3 -> "3" [] OTHER -> "0"

\* ObservabilityManager.set_current_user / clear_current_user: the value
\* current_user_id holds afterwards
set_current_user(user_id) == user_id
clear_current_user == None

\* `if self.current_user_id`: None and the empty string are false
user_context_of(value) == IF value # None /\ value # "" THEN value ELSE None

\* a request slot no request is passing through
IdleCall == [pc |-> "idle", route |-> "none", user_context |-> None,
             recorded |-> None]

Routes == {"login", "read_users_me"}

\* the request carries an Authorization: Bearer header
Bearer(route) == route # "login"

\* what main.py's observability_middleware leaves in current_user_id around a
\* request: set on entry when the request carries a bearer header, cleared
\* after the response; an unhandled exception leaves call_next by raising, so
\* the clear of line 97 is not reached
Middleware(starting, done, bearer) ==
    LET entered == IF starting /\ bearer
                   THEN set_current_user("authenticated_user")
                   ELSE current_user_id
    IN  /\ current_user_id' = IF done /\ resp'.fault = "none"
                              THEN clear_current_user
                              ELSE entered
        /\ UNCHANGED <<calls, orm_user, security_manager>>

\* a request handled in one step
Served(bearer) == Middleware(TRUE, TRUE, bearer)

\* one step of the request in slot r
Step(r, bearer) == Middleware(reqs[r].pc = "idle", reqs'[r].pc = "idle", bearer)

\* no models.User instance
NoObject == [id |-> NoId]

\* an attribute the instance does not have (hasattr is false)
Absent == "<absent>"

\* a models.User instance built from a row, before any event listener ran
Instance(row) ==
    [id |-> row.id,
     email_hash |-> row.email_hash,
     username_hash |-> row.username_hash,
     phone_hash |-> row.phone_hash,
     email_encrypted |-> row.email_encrypted,
     username_encrypted |-> row.username_encrypted,
     phone_encrypted |-> row.phone_encrypted,
     hashed_password |-> row.hashed_password,
     is_botanist |-> row.is_botanist,
     is_active |-> row.is_active,
     _decrypted_email |-> Absent,
     _decrypted_username |-> Absent,
     _decrypted_phone |-> Absent,
     _decrypted |-> FALSE]

\* the column values of an instance, as flushed to its row
RowOf(user) ==
    [id |-> user.id,
     email_hash |-> user.email_hash,
     username_hash |-> user.username_hash,
     phone_hash |-> user.phone_hash,
     email_encrypted |-> user.email_encrypted,
     username_encrypted |-> user.username_encrypted,
     phone_encrypted |-> user.phone_encrypted,
     hashed_password |-> user.hashed_password,
     is_botanist |-> user.is_botanist,
     is_active |-> user.is_active]

\* the 'load' listener of events.py: decrypts each ciphertext that is present
\* into an attribute of the instance, once
decrypt_user_data(user) ==
    IF user._decrypted THEN user
    ELSE [user EXCEPT
            !._decrypted_email =
                IF user.email_encrypted # NoneBytes
                THEN decrypt_value(user.email_encrypted) ELSE @,
            !._decrypted_username =
                IF user.username_encrypted # NoneBytes
                THEN decrypt_value(user.username_encrypted) ELSE @,
            !._decrypted_phone =
                IF user.phone_encrypted # NoneBytes
                THEN decrypt_value(user.phone_encrypted) ELSE @,
            !._decrypted = TRUE]

\* the properties setup_events installs as User.email, User.username and
\* User.phone
email_with_cache(self) ==
    IF self._decrypted_email # Absent THEN self._decrypted_email
    ELSE IF self.email_encrypted # NoneBytes
         THEN decrypt_value(self.email_encrypted) ELSE None

username_with_cache(self) ==
    IF self._decrypted_username # Absent THEN self._decrypted_username
    ELSE IF self.username_encrypted # NoneBytes
         THEN decrypt_value(self.username_encrypted) ELSE None

phone_with_cache(self) ==
    IF self._decrypted_phone # Absent THEN self._decrypted_phone
    ELSE IF self.phone_encrypted # NoneBytes
         THEN decrypt_value(self.phone_encrypted) ELSE None

\* A configured key string, described by what key preparation and the base64
\* decoder look at: the number of url-safe base64 digits, of characters
\* outside that alphabet, and of trailing '=' signs; name tells apart strings
\* of the same shape.
KeyDigits == {0, 16, 41, 42, 43, 44, 57}
KeyJunk == {0, 1}
KeyPadding == {0, 1, 2}
KeyNames == {"k1", "k2", "k3"}

KeyStrings ==
    [digits : KeyDigits, junk : KeyJunk, padding : KeyPadding,
     name : KeyNames, sha256 : {"no"}]

\* len(key_string)
len(key_string) == key_string.digits + key_string.junk + key_string.padding

\* base64.urlsafe_b64encode(hashlib.sha256(key_string.encode()).digest()):
\* 43 digits and one '=', a different text for each input
b64_sha256(key_string) ==
    [digits |-> 43, junk |-> 0, padding |-> 1, name |-> key_string.name,
     sha256 |-> <<key_string.digits, key_string.junk, key_string.padding>>]

\* SecurityManager._prepare_key
_prepare_key(key_string) ==
    IF len(key_string) = 44 /\ key_string.padding = 2
    THEN key_string
    ELSE b64_sha256(key_string)

\* base64.urlsafe_b64decode(key) has exactly 32 bytes: the decoder drops the
\* characters outside the alphabet, needs the '=' that completes the last
\* group, and turns 43 digits into 32 bytes
decodes_to_32_bytes(key) == key.digits = 43 /\ key.padding >= 1

\* Fernet(key): ValueError unless the key decodes to 32 bytes
Fernet(key) ==
    IF decodes_to_32_bytes(key)
    THEN [key |-> key, error |-> "none"]
    ELSE [key |-> key, error |-> "ValueError"]

\* settings.ENCRYPTION_KEY as shipped: 59 characters, all of them letters or
\* '-', no padding
DefaultKeyString ==
    [digits |-> 59, junk |-> 0, padding |-> 0, name |-> ENCRYPTION_KEY,
     sha256 |-> "no"]

\* security_manager = SecurityManager(), lines 8-10
SecurityManager(key_string) ==
    [key_string |-> key_string, fernet |-> Fernet(_prepare_key(key_string))]

\* a worker that has imported the application and serves no request
InitMemory ==
    /\ current_user_id = None
    /\ calls = [r \in Reqs |-> IdleCall]
    /\ orm_user = NoObject
    /\ security_manager = SecurityManager(DefaultKeyString)

\* a database created by create_all, with no rows yet
Init ==
    /\ users = {}
    /\ plants = {}
    /\ comments = {}
    /\ nextUserId = 1
    /\ nextPlantId = 1
    /\ nextCommentId = 1
    /\ held = NoGrant
    /\ now = 0
    /\ ticks = 0
    /\ expire_minutes \in ExpireChoices
    /\ reqs = [r \in Reqs |-> IdleReq]
    /\ resp = NoResponse
    /\ InitMemory

Quiet == \A r \in Reqs : reqs[r].pc = "idle"

\* one worker process: a handler runs to completion before the next starts
Next ==
    \/ CreateCheckEmail("r1") /\ Step("r1", FALSE)
    \/ CreateCheckUsername("r1") /\ Step("r1", FALSE)
    \/ CreateCommit("r1") /\ Step("r1", FALSE)
    \/ EditAuth("r1") /\ Step("r1", TRUE)
    \/ EditBody("r1") /\ Step("r1", TRUE)
    \* edit_user requests that carry no new phone number and no is_botanist
    \/ /\ EditCommit("r1")
       /\ resp'.args.phone \in Phones \cup {None}
       /\ resp'.args.is_botanist = None
       /\ Step("r1", TRUE)
    \/ Quiet /\ Login /\ Served(FALSE)
    \/ Quiet /\ ReadUsersMe /\ Served(TRUE)
    \/ Quiet /\ DeleteUser /\ Served(TRUE)
    \/ Quiet /\ Tick /\ UNCHANGED memory

Spec == Init /\ [][Next]_vars

\* a database in which two principals have registered (two create_user calls
\* as in Spec), served by the same worker, with the plant and comment routes
\* and a stopped clock
InitContent ==
    /\ users = {NewUserRow(1, "a@x.com", "alice", "0611", "pw1", FALSE),
                NewUserRow(2, "b@x.com", "bob", "0611", "pw1", FALSE)}
    /\ plants = {}
    /\ comments = {}
    /\ nextUserId = 3
    /\ nextPlantId = 1
    /\ nextCommentId = 1
    /\ held = NoGrant
    /\ now = 0
    /\ ticks = 0
    /\ expire_minutes = 1
    /\ reqs = [r \in Reqs |-> IdleReq]
    /\ resp = NoResponse
    /\ InitMemory

ContentNext ==
    \/ Login /\ Served(FALSE)
    \/ DeleteUser /\ Served(TRUE)
    \/ CreatePlant /\ Served(TRUE)
    \/ UpdatePlant /\ Served(TRUE)
    \/ DeletePlant /\ Served(FALSE)
    \/ ListAllPlants /\ Served(TRUE)
    \/ StartPlantCare /\ Served(TRUE)
    \/ EndPlantCare /\ Served(TRUE)
    \/ ListCareRequests /\ Served(TRUE)
    \/ CreateComment /\ Served(TRUE)
    \/ GetPlantComments /\ Served(FALSE)
    \/ UpdateComment /\ Served(TRUE)
    \/ DeleteComment /\ Served(TRUE)

SpecContent == InitContent /\ [][ContentNext]_vars

\* the comment routes on their own: a database in which two principals have
\* registered and the first has created one plant (create_user twice, login,
\* create_plant), served by one worker with a stopped clock
InitComments ==
    /\ users = {NewUserRow(1, "a@x.com", "alice", "0611", "pw1", FALSE),
                NewUserRow(2, "b@x.com", "bob", "0611", "pw1", FALSE)}
    /\ plants = {[id |-> 1, name |-> "fern", location |-> "kitchen",
                  care_instructions |-> None,
                  photo_url |-> <<"photos/", 1, "_", "fern.jpg">>,
                  owner_id |-> 1, in_care_id |-> NoId, plant_sitting |-> NoId]}
    /\ comments = {}
    /\ nextUserId = 3
    /\ nextPlantId = 2
    /\ nextCommentId = 1
    /\ held = NoGrant
    /\ now = 0
    /\ ticks = 0
    /\ expire_minutes = 1
    /\ reqs = [r \in Reqs |-> IdleReq]
    /\ resp = NoResponse
    /\ InitMemory

CommentsNext ==
    \/ Login /\ Served(FALSE)
    \/ DeleteUser /\ Served(TRUE)
    \/ DeletePlant /\ Served(FALSE)
    \/ CreateComment /\ Served(TRUE)
    \/ GetPlantComments /\ Served(FALSE)
    \/ UpdateComment /\ Served(TRUE)
    \/ DeleteComment /\ Served(TRUE)

SpecComments == InitComments /\ [][CommentsNext]_vars

\* the plant and care routes with the user deletion, on the database of
\* InitContent, served by one worker with a stopped clock
CareNext ==
    \/ Login /\ Served(FALSE)
    \/ DeleteUser /\ Served(TRUE)
    \/ CreatePlant /\ Served(TRUE)
    \* update_plant requests that carry a caretaker id and no other field
    \/ /\ UpdatePlant
       /\ resp'.args.name = None
       /\ resp'.args.location = None
       /\ resp'.args.photo = None
       /\ Served(TRUE)
    \/ StartPlantCare /\ Served(TRUE)
    \/ EndPlantCare /\ Served(TRUE)
    \/ ListCareRequests /\ Served(TRUE)

SpecCare == InitContent /\ [][CareNext]_vars

\* several worker processes on one database: requests interleave between
\* their database round trips.  A request takes slot r1 when both slots are
\* free, so r2 only ever holds a request that overlaps one in r1.
\* Each worker process has an observability context of its own; the contexts
\* are not followed here.
Overlaps(r) == r = "r1" \/ reqs["r1"].pc # "idle"

ConcurrentNext ==
    \/ \E r \in Reqs : Overlaps(r) /\ CreateCheckEmail(r) /\ UNCHANGED memory
    \/ \E r \in Reqs : CreateCheckUsername(r) /\ UNCHANGED memory
    \/ \E r \in Reqs : CreateCommit(r) /\ UNCHANGED memory
    \/ \E r \in Reqs : Overlaps(r) /\ EditAuth(r) /\ UNCHANGED memory
    \/ \E r \in Reqs : EditBody(r) /\ UNCHANGED memory
    \* edit_user requests that carry no new phone number and no is_botanist
    \/ \E r \in Reqs : /\ EditCommit(r)
                        /\ resp'.args.phone \in Phones \cup {None}
                        /\ resp'.args.is_botanist = None
                        /\ UNCHANGED memory
    \/ Login /\ UNCHANGED memory

SpecConcurrent == Init /\ [][ConcurrentNext]_vars

\* a database in which an administrator has deactivated an account:
\* users.is_active is an ordinary Boolean column (models.py 24)
DeactivatedRow ==
    [NewUserRow(1, "a@x.com", "alice", "0611", "pw1", FALSE)
        EXCEPT !.is_active = FALSE]

InitDeactivated ==
    /\ users = {DeactivatedRow}
    /\ plants = {}
    /\ comments = {}
    /\ nextUserId = 2
    /\ nextPlantId = 1
    /\ nextCommentId = 1
    /\ held = NoGrant
    /\ now = 0
    /\ ticks = 0
    /\ expire_minutes \in ExpireChoices
    /\ reqs = [r \in Reqs |-> IdleReq]
    /\ resp = NoResponse
    /\ InitMemory

SpecDeactivated == InitDeactivated /\ [][Next]_vars

----------------------------------------------------------------------------
(* One edit_user call followed statement by statement on its models.User    *)
(* instance (main.py 233-268), on a database with one registered principal. *)

\* the database after one create_user call, for each registration form
InitAccessor ==
    /\ \E email \in Emails, username \in Usernames, phone \in Phones,
          is_botanist \in BOOLEAN :
         users = {NewUserRow(1, email, username, phone, "pw1", is_botanist)}
    /\ plants = {}
    /\ comments = {}
    /\ nextUserId = 2
    /\ nextPlantId = 1
    /\ nextCommentId = 1
    /\ held = NoGrant
    /\ now = 0
    /\ ticks = 0
    /\ expire_minutes = 1
    /\ reqs = [r \in Reqs |-> IdleReq]
    /\ resp = NoResponse
    /\ InitMemory

\* line 234: db.query(models.User).filter(models.User.id == user_id).first();
\* the instance is built from the row and the 'load' listener runs on it
QueryUser ==
    /\ orm_user = NoObject
    /\ \E user_id \in UserIds :
         /\ UsersById(user_id) # {}
         /\ orm_user' = decrypt_user_data(
                            Instance(CHOOSE u \in UsersById(user_id) : TRUE))
    /\ UNCHANGED <<users, plants, comments, nextUserId, nextPlantId,
                   nextCommentId, held, now, ticks, expire_minutes, reqs, resp,
                   current_user_id, calls, security_manager>>

\* lines 254-265: the hash and ciphertext columns of the instance reassigned
AssignColumns ==
    /\ orm_user # NoObject
    /\ \E email \in EmailArgs, username \in UsernameArgs, phone \in PhoneArgs,
          is_botanist \in BoolArgs :
         orm_user' = ApplyEdit(orm_user, email, username, phone, is_botanist)
    /\ UNCHANGED <<users, plants, comments, nextUserId, nextPlantId,
                   nextCommentId, held, now, ticks, expire_minutes, reqs, resp,
                   current_user_id, calls, security_manager>>

\* lines 267-268: db.commit() flushes the columns, db.refresh() reads them
\* back; 'load' is not sent again.  A violated unique index raises, and the
\* session is closed with the instance.
CommitRefresh ==
    /\ orm_user # NoObject
    /\ UsersById(orm_user.id) # {}
    /\ LET rows == (users \ UsersById(orm_user.id)) \cup {RowOf(orm_user)} IN
       IF CommitAllowed(rows)
       THEN /\ users' = rows
            /\ orm_user' = orm_user
       ELSE /\ users' = users
            /\ orm_user' = NoObject
    /\ UNCHANGED <<plants, comments, nextUserId, nextPlantId, nextCommentId,
                   held, now, ticks, expire_minutes, reqs, resp,
                   current_user_id, calls, security_manager>>

\* get_db's finally: db.close() ends the session and the handler's instance
CloseSession ==
    /\ orm_user # NoObject
    /\ orm_user' = NoObject
    /\ UNCHANGED <<users, plants, comments, nextUserId, nextPlantId,
                   nextCommentId, held, now, ticks, expire_minutes, reqs, resp,
                   current_user_id, calls, security_manager>>

AccessorNext ==
    \/ QueryUser
    \/ AssignColumns
    \/ CommitRefresh
    \/ CloseSession

SpecAccessor == InitAccessor /\ [][AccessorNext]_vars

----------------------------------------------------------------------------
(* Two requests passing through the middlewares of one worker process: the  *)
(* event loop switches between them where a middleware awaits call_next.    *)

\* main.py 47-60: observability_middleware before call_next
MiddlewareEnter(r) ==
    /\ calls[r].pc = "idle"
    /\ \E route \in Routes :
         LET user_id == IF Bearer(route) THEN "authenticated_user" ELSE None IN
         /\ current_user_id' = IF Bearer(route)
                               THEN set_current_user(user_id)
                               ELSE current_user_id
         /\ calls' = [calls EXCEPT ![r] =
                         [IdleCall EXCEPT !.pc = "entered", !.route = route,
                                          !.recorded = user_id]]
    /\ UNCHANGED <<users, plants, comments, nextUserId, nextPlantId,
                   nextCommentId, held, now, ticks, expire_minutes, reqs, resp,
                   orm_user, security_manager>>

\* observability.py 216-229: the inner middleware reads the user context it
\* logs with request_started and request_completed
RequestStarted(r) ==
    /\ calls[r].pc = "entered"
    /\ calls' = [calls EXCEPT ![r].pc = "started",
                              ![r].user_context = user_context_of(current_user_id)]
    /\ UNCHANGED <<users, plants, comments, nextUserId, nextPlantId,
                   nextCommentId, held, now, ticks, expire_minutes, reqs, resp,
                   current_user_id, orm_user, security_manager>>

\* the login handler, with lines 150-151: observability.set_current_user(str(user.id))
HandleLogin(r) ==
    /\ calls[r].pc = "started"
    /\ calls[r].route = "login"
    /\ Login
    /\ current_user_id' = IF resp'.status = 200
                          THEN set_current_user(str(resp'.caller))
                          ELSE current_user_id
    /\ calls' = [calls EXCEPT ![r].pc = "handled",
                              ![r].recorded = IF resp'.status = 200
                                              THEN str(resp'.caller) ELSE @]
    /\ UNCHANGED <<orm_user, security_manager>>

\* the read_users_me handler
HandleReadUsersMe(r) ==
    /\ calls[r].pc = "started"
    /\ calls[r].route = "read_users_me"
    /\ ReadUsersMe
    /\ calls' = [calls EXCEPT ![r].pc = "handled"]
    /\ UNCHANGED <<current_user_id, orm_user, security_manager>>

\* main.py 97-99: observability.clear_current_user() and the response
MiddlewareLeave(r) ==
    /\ calls[r].pc = "handled"
    /\ current_user_id' = clear_current_user
    /\ calls' = [calls EXCEPT ![r] = IdleCall]
    /\ UNCHANGED <<users, plants, comments, nextUserId, nextPlantId,
                   nextCommentId, held, now, ticks, expire_minutes, reqs, resp,
                   orm_user, security_manager>>

ObservedNext ==
    \/ \E r \in Reqs : MiddlewareEnter(r)
    \/ \E r \in Reqs : RequestStarted(r)
    \/ \E r \in Reqs : HandleLogin(r)
    \/ \E r \in Reqs : HandleReadUsersMe(r)
    \/ \E r \in Reqs : MiddlewareLeave(r)

SpecObserved == InitContent /\ [][ObservedNext]_vars

----------------------------------------------------------------------------
(* The SecurityManager built at import time from a configured key string.   *)

NotBuilt == [key |-> DefaultKeyString, error |-> "not built"]

\* a process about to import app.security, for each configured key string
InitKeys ==
    /\ users = {}
    /\ plants = {}
    /\ comments = {}
    /\ nextUserId = 1
    /\ nextPlantId = 1
    /\ nextCommentId = 1
    /\ held = NoGrant
    /\ now = 0
    /\ ticks = 0
    /\ expire_minutes = 1
    /\ reqs = [r \in Reqs |-> IdleReq]
    /\ resp = NoResponse
    /\ current_user_id = None
    /\ calls = [r \in Reqs |-> IdleCall]
    /\ orm_user = NoObject
    /\ \E key_string \in KeyStrings :
         security_manager = [key_string |-> key_string, fernet |-> NotBuilt]

\* security.py 8-10: self.fernet = Fernet(self._prepare_key(settings.ENCRYPTION_KEY))
BuildSecurityManager ==
    /\ security_manager.fernet = NotBuilt
    /\ security_manager' = SecurityManager(security_manager.key_string)
    /\ UNCHANGED <<users, plants, comments, nextUserId, nextPlantId,
                   nextCommentId, held, now, ticks, expire_minutes, reqs, resp,
                   current_user_id, calls, orm_user>>

KeysNext == BuildSecurityManager

SpecKeys == InitKeys /\ [][KeysNext]_vars

----------------------------------------------------------------------------
(* The edit_user route with every query parameter, on the database of        *)
(* InitComments, served by one worker with a stopped clock.                  *)

EditNext ==
    \/ Quiet /\ Login /\ Served(FALSE)
    \/ EditAuth("r1") /\ Step("r1", TRUE)
    \/ EditBody("r1") /\ Step("r1", TRUE)
    \/ EditCommit("r1") /\ Step("r1", TRUE)

SpecEdit == InitComments /\ [][EditNext]_vars

----------------------------------------------------------------------------
(* Properties *)

\* the plaintext a principal's ciphertext decrypts to
EmailOf(u) == decrypt_value(u.email_encrypted)
UsernameOf(u) == decrypt_value(u.username_encrypted)
PhoneOf(u) == decrypt_value(u.phone_encrypted)

HoldsEmail(email) == \E u \in users : EmailOf(u) = email
HoldsUsername(username) == \E u \in users : UsernameOf(u) = username

\* C1: after any sequence of register and edit_user operations, every stored
\* principal's email, username and phone hash equals hash_value of the plaintext
\* its ciphertext decrypts to.
C1_HashMatchesCiphertext ==
    \A u \in users :
        /\ u.email_hash = hash_value(EmailOf(u))
        /\ u.username_hash = hash_value(UsernameOf(u))
        /\ u.phone_hash = hash_value(PhoneOf(u))

\* an edit_user that rewrote all three identity attributes has been committed
C1_Witness ==
    /\ resp.op = "edit_user"
    /\ resp.status = 200
    /\ resp.args.email # None
    /\ resp.args.username # None
    /\ resp.args.phone # None
    /\ \E u \in users : u.id = resp.args.user_id /\ EmailOf(u) = resp.args.email

\* C2: in every state reached by interleaved register and edit_user requests, no
\* two stored principals share an email hash or a username hash (the phone hash
\* may be shared).
C2_UniqueEmailAndUsernameHash ==
    \A u, v \in users :
        u # v => /\ u.email_hash # v.email_hash
                 /\ u.username_hash # v.username_hash

\* two principals share a phone hash, and a request that had passed its pre-checks
\* was refused by a unique index
C2_Witness ==
    /\ resp.fault = "IntegrityError"
    /\ \E u, v \in users : u.id # v.id /\ u.phone_hash = v.phone_hash

\* C3: register with an email a stored principal holds fails with 'Email already
\* registered'; with a fresh email and a held username it fails with 'Username
\* already taken'; in both cases the store is unchanged.
C3_DuplicateRegistrationRejected ==
    [][resp'.op = "create_user" =>
         /\ HoldsEmail(resp'.args.email) =>
               /\ resp'.status = 400
               /\ resp'.body = [detail |-> "Email already registered"]
               /\ store' = store
         /\ ( /\ ~HoldsEmail(resp'.args.email)
              /\ "username" \in DOMAIN resp'.args
              /\ HoldsUsername(resp'.args.username) ) =>
               /\ resp'.status = 400
               /\ resp'.body = [detail |-> "Username already taken"]
               /\ store' = store
      ]_vars

\* a register with a fresh email and a held username was answered
C3_Witness ==
    /\ resp.op = "create_user"
    /\ resp.status = 400
    /\ resp.body.detail = "Username already taken"
    /\ ~HoldsEmail(resp.args.email)
    /\ HoldsUsername(resp.args.username)

\* C4: a register request that loses the race on an email or username ends with
\* the client-facing DuplicateIdentity conflict, never with an unhandled fault.
C4_RaceLoserGetsConflict ==
    resp.op = "create_user" =>
        /\ resp.fault = "none"
        /\ resp.status \in {200, 400, 409}

C6_ZeroTtlTokenRejected ==
    ( /\ expire_minutes = 0
      /\ resp.op = "read_users_me"
      /\ held # NoGrant
      /\ resp.args.token = held.tok ) => resp.status = 401

\* what the caller sees of a response
Visible(r) == [status |-> r.status, body |-> r.body]

UnknownEmail(email) == ~HoldsEmail(email)
WrongPassword(email, password) ==
    \E u \in users : EmailOf(u) = email
                     /\ u.hashed_password # get_password_hash(password)

GenericAuthFailure ==
    [status |-> 401,
     body |-> [detail |-> "Incorrect email or password",
               headers |-> "WWW-Authenticate: Bearer"]]

\* C7: login with an unknown email and login with a registered email and a wrong
\* password give the identical caller-visible outcome (401, 'Incorrect email or
\* password', same headers), and neither changes stored state.
C7_AuthFailuresIndistinguishable ==
    /\ [](\A e1, e2 \in Emails, p1, p2 \in Passwords :
            (UnknownEmail(e1) /\ WrongPassword(e2, p2)) =>
                /\ Visible(LoginOutcome(e1, p1)) = Visible(LoginOutcome(e2, p2))
                /\ Visible(LoginOutcome(e1, p1)) = GenericAuthFailure)
    /\ []((resp.op = "login"
           /\ (UnknownEmail(resp.args.email)
               \/ WrongPassword(resp.args.email, resp.args.password))) =>
             Visible(resp) = GenericAuthFailure)
    /\ [][(resp'.op = "login" /\ resp'.status # 200) =>
             (store' = store /\ held' = held)]_vars

\* a wrong password on a registered email was answered while another email is
\* unknown
C7_Witness ==
    /\ resp.op = "login"
    /\ WrongPassword(resp.args.email, resp.args.password)
    /\ \E e \in Emails : UnknownEmail(e)
    /\ Visible(resp) = GenericAuthFailure

\* C8: the token login returned for a registered (email, password), presented
\* before its expiry while the principal still holds that email, resolves to the
\* same principal: same id, email equal to the registered plaintext.
C8_TokenResolvesToItsPrincipal ==
    ( /\ resp.op = "read_users_me"
      /\ held # NoGrant
      /\ resp.args.token = held.tok
      /\ now < held.tok.exp
      /\ \E u \in users : u.id = held.uid /\ EmailOf(u) = held.email ) =>
        /\ resp.status = 200
        /\ resp.body.id = held.uid
        /\ resp.body.email = held.email

\* the held token was resolved while two principals are stored
C8_Witness ==
    /\ resp.op = "read_users_me"
    /\ resp.status = 200
    /\ held # NoGrant
    /\ resp.args.token = held.tok
    /\ resp.body.id = held.uid
    /\ Cardinality(users) = 2

ListOps == {"list_all_plants", "list_care_requests", "get_plant_comments"}

JsonHasDigest(o) ==
    \/ "hashed_password" \in DOMAIN o
    \/ "owner" \in DOMAIN o /\ "hashed_password" \in DOMAIN o.owner
    \/ "user" \in DOMAIN o /\ "hashed_password" \in DOMAIN o.user

ResponseHasDigest(r) ==
    IF r.op \in ListOps /\ r.status = 200
    THEN \E o \in r.body : JsonHasDigest(o)
    ELSE JsonHasDigest(r.body)

C10_DeleteOnlySelf ==
    (resp.op = "delete_user" /\ resp.caller # resp.args.id) =>
        resp.status # 200

C12_PlantDeletedOnlyByOwner ==
    [][\A p \in plants :
          (\A q \in plants' : q.id # p.id) =>
              /\ resp'.op = "delete_plant"
              /\ resp'.caller # NoId
              /\ resp'.caller = p.owner_id
      ]_vars

\* C13: update_plant on plant P succeeds and applies the supplied fields when the
\* caller is P's owner; when the caller is any other principal it fails with the
\* 404 outcome 'Plant not found or not owned by current user' and leaves P
\* unchanged.
C13_UpdatePlantOwnerOnly ==
    [][( /\ resp'.op = "update_plant"
         /\ resp'.caller # NoId ) =>
          \A p \in plants :
            p.id = resp'.args.plant_id =>
              IF p.owner_id = resp'.caller
              THEN /\ resp'.status = 200
                   /\ \E q \in plants' :
                        /\ q.id = p.id
                        /\ resp'.args.name # None => q.name = resp'.args.name
                        /\ resp'.args.location # None =>
                               q.location = resp'.args.location
                        /\ resp'.args.in_care_id # NoId =>
                               q.in_care_id = resp'.args.in_care_id
              ELSE /\ resp'.status = 404
                   /\ resp'.body =
                        [detail |-> "Plant not found or not owned by current user"]
                   /\ p \in plants'
      ]_vars

\* the stored plant a comment is on is owned by the principal with this id
OwnsPlantOf(c, id) == \E p \in plants : p.id = c.plant_id /\ p.owner_id = id

\* C14: delete_comment removes a comment if and only if the caller is the
\* comment's author or the owner of the plant the comment is on; any other
\* authenticated caller gets 403 'Not authorized to delete this comment' and the
\* comment remains stored.
C14_DeleteCommentAuthorOrOwner ==
    [][( /\ resp'.op = "delete_comment"
         /\ resp'.caller # NoId ) =>
          \A c \in comments :
            c.id = resp'.args.comment_id =>
              IF c.user_id = resp'.caller \/ OwnsPlantOf(c, resp'.caller)
              THEN /\ resp'.status = 200
                   /\ comments' = comments \ {c}
              ELSE /\ resp'.status = 403
                   /\ resp'.body = [detail |->
                        "Not authorized to delete this comment. Must be comment author or plant owner."]
                   /\ comments' = comments
      ]_vars

\* the owner of the plant deleted a comment written by another principal
C14_Witness ==
    /\ resp.op = "delete_comment"
    /\ resp.status = 200
    /\ resp.body.user_id # resp.caller
    /\ \E p \in plants : p.id = resp.body.plant_id /\ p.owner_id = resp.caller
    /\ CommentsById(resp.args.comment_id) = {}

\* C15: update_comment changes a comment's text only when the caller is the
\* comment's author; any other caller, including the owner of the plant, gets
\* 403 'Not authorized to update this comment' and the comment is unchanged.
C15_UpdateCommentAuthorOnly ==
    [][( /\ resp'.op = "update_comment"
         /\ resp'.caller # NoId ) =>
          \A c \in comments :
            c.id = resp'.args.comment_id =>
              IF c.user_id = resp'.caller
              THEN /\ resp'.status = 200
                   /\ comments' = (comments \ {c}) \cup
                          {[c EXCEPT !.comment = resp'.args.comment_text]}
              ELSE /\ resp'.status = 403
                   /\ resp'.body =
                        [detail |-> "Not authorized to update this comment"]
                   /\ comments' = comments
      ]_vars

\* the owner of the plant tried to edit another principal's comment and was
\* refused
C15_Witness ==
    /\ resp.op = "update_comment"
    /\ resp.status = 403
    /\ \E c \in CommentsById(resp.args.comment_id) :
          /\ c.user_id # resp.caller
          /\ OwnsPlantOf(c, resp.caller)
          /\ c.comment # resp.args.comment_text

\* the held token is accepted by get_current_user
HeldAccepted == held # NoGrant /\ get_current_user(held.tok) # NoUser

\* C16 (as stated): no operation invalidates a token before its expiry: if
\* get_current_user accepts a token at some time it accepts the same token at
\* every later time before exp, whatever register, edit_user or delete_user
\* operations happen in between.
C16_NoInvalidationBeforeExpiry ==
    [][( /\ held' = held
         /\ HeldAccepted
         /\ now' < held.tok.exp ) => HeldAccepted'
      ]_vars

\* C16 (amended): a token accepted at some time is accepted at every later time
\* before exp for as long as a stored principal holds the email of its sub
\* claim; it stops being accepted before exp only when delete_user removes that
\* principal or edit_user gives that principal another email.
C16_InvalidatedOnlyWithItsPrincipal ==
    [][( /\ held' = held
         /\ HeldAccepted
         /\ now' < held.tok.exp ) =>
          /\ (\E u \in users' : EmailOf(u) = held.tok.sub) => HeldAccepted'
          /\ ~HeldAccepted' =>
               \E u \in users :
                  /\ EmailOf(u) = held.tok.sub
                  /\ resp'.status = 200
                  /\ \/ /\ resp'.op = "delete_user"
                        /\ resp'.args.id = u.id
                     \/ /\ resp'.op = "edit_user"
                        /\ resp'.args.user_id = u.id
                        /\ resp'.args.email \notin {None, held.tok.sub}
      ]_vars

\* the held token is still accepted after a second principal registered and the
\* token's principal edited its username
C16_Witness ==
    /\ HeldAccepted
    /\ now < held.tok.exp
    /\ Cardinality(users) = 2
    /\ resp.op = "edit_user"
    /\ resp.status = 200
    /\ resp.args.user_id = held.uid
    /\ resp.args.username # None
    /\ resp.args.email = None

\* C17: edit_user that would give the caller an email hash or a username hash
\* already held by another principal fails with DuplicateIdentity ('Email
\* already registered' / 'Username already taken') and leaves the store
\* unchanged, for every non-None email or username value supplied.
C17_EditCollisionRejected ==
    [][( /\ resp'.op = "edit_user"
         /\ resp'.caller # NoId
         /\ resp'.args.user_id = resp'.caller
         /\ resp'.status # 404 ) =>
          LET emailHeld ==
                  /\ resp'.args.email # None
                  /\ \E u \in users : /\ u.id # resp'.caller
                                      /\ u.email_hash = hash_value(resp'.args.email)
              usernameHeld ==
                  /\ resp'.args.username # None
                  /\ \E u \in users : /\ u.id # resp'.caller
                                      /\ u.username_hash =
                                             hash_value(resp'.args.username)
          IN  /\ emailHeld =>
                    /\ resp'.status = 400
                    /\ resp'.body = [detail |-> "Email already registered"]
                    /\ store' = store
              /\ (~emailHeld /\ usernameHeld) =>
                    /\ resp'.status = 400
                    /\ resp'.body = [detail |-> "Username already taken"]
                    /\ store' = store
      ]_vars

\* C18: after principal A changes its own email from a to b with edit_user,
\* authenticate(b, password) succeeds and authenticate(a, password) fails with
\* the generic AuthFailure.
C18_LoginFollowsEmailChange ==
    [][\A a, b \in Emails, password \in Passwords :
          ( /\ a # b
            /\ resp'.op = "edit_user"
            /\ resp'.status = 200
            /\ resp'.args.email = b
            /\ \E u \in users : /\ u.id = resp'.args.user_id
                                /\ EmailOf(u) = a
                                /\ verify_password(password, u.hashed_password) ) =>
              ( /\ LoginOutcome(b, password).status = 200
                /\ LoginOutcome(b, password).caller = resp.args.user_id
                /\ Visible(LoginOutcome(a, password)) = GenericAuthFailure )'
      ]_vars

\* a principal that had logged in under one email has committed an edit_user to
\* another email
C18_Witness ==
    /\ resp.op = "edit_user"
    /\ resp.status = 200
    /\ resp.args.email # None
    /\ held # NoGrant
    /\ held.uid = resp.args.user_id
    /\ held.email # resp.args.email
    /\ LoginOutcome(resp.args.email, "pw1").status = 200
    /\ LoginOutcome(held.email, "pw1").status = 401

\* C19: a plant's caretaker (in_care_id) changes only through start-care, which
\* sets it to the caller, and end-care, which clears it: create_plant leaves it
\* unset, and update_plant and every other operation leave it unchanged.
C19_CaretakerOnlyByCareActions ==
    [][\A q \in plants' :
          LET before == {p \in plants : p.id = q.id}
              was == IF before = {} THEN NoId
                     ELSE (CHOOSE p \in before : TRUE).in_care_id
          IN  q.in_care_id # was =>
                \/ /\ resp'.op = "start_plant_care"
                   /\ q.in_care_id = resp'.caller
                \/ /\ resp'.op = "end_plant_care"
                   /\ q.in_care_id = NoId
      ]_vars

\* C20: in every reachable state each stored plant has exactly one owner, that
\* owner is a stored principal, and the plant's owner_id equals the id of the
\* principal that created it: no operation changes or removes the owner while
\* the plant exists.
C20_PlantKeepsItsOwner ==
    /\ [](\A p \in plants : \E u \in users : u.id = p.owner_id)
    /\ [][ /\ \A p \in plants, q \in plants' :
                q.id = p.id => q.owner_id = p.owner_id
           /\ \A q \in plants' :
                (\A p \in plants : p.id # q.id) =>
                    /\ resp'.op = "create_plant"
                    /\ q.owner_id = resp'.caller
         ]_vars

\* C21: start-care by any authenticated principal on any existing plant, whoever
\* owns it and whether or not it already has a caretaker, succeeds and sets the
\* plant's caretaker to the caller; on a non-existent plant it returns 404 and
\* changes nothing.
C21_StartCareByAnyone ==
    [][( /\ resp'.op = "start_plant_care"
         /\ resp'.caller # NoId ) =>
          LET found == {p \in plants : p.id = resp'.args.plant_id} IN
          IF found = {}
          THEN /\ resp'.status = 404
               /\ resp'.body = [detail |-> "Plant not found"]
               /\ store' = store
          ELSE /\ resp'.status = 200
               /\ \A p \in found :
                    plants' = (plants \ {p}) \cup
                                  {[p EXCEPT !.in_care_id = resp'.caller]}
               /\ users' = users
               /\ comments' = comments
      ]_vars

\* a principal that does not own the plant has started its care
C21_Witness ==
    /\ resp.op = "start_plant_care"
    /\ resp.status = 200
    /\ resp.body.owner_id # resp.caller
    /\ resp.body.in_care_id = resp.caller
    /\ resp.args.token = held.tok
    /\ \E p \in plants : p.id = resp.args.plant_id /\ p.in_care_id = resp.caller
    /\ Cardinality(users) = 2

C23_EditUnknownTargetNotFound ==
    [][( /\ resp'.op = "edit_user"
         /\ resp'.caller # NoId
         /\ UsersById(resp'.args.user_id) = {} ) =>
            /\ resp'.status = 404
            /\ resp'.body = [detail |-> "User not found"]
      ]_vars

\* C24: a token issued to principal P never resolves to a different principal:
\* whatever register, edit_user and delete_user operations follow its issuance,
\* get_current_user on the held token yields P's view or an authentication
\* failure.
C24_TokenResolvesToItsPrincipal ==
    (held # NoGrant /\ get_current_user(held.tok) # NoUser) =>
        get_current_user(held.tok).id = held.uid

\* the value the plaintext accessor must return for a ciphertext column
Plain(ciphertext) ==
    IF ciphertext # NoneBytes THEN decrypt_value(ciphertext) ELSE None

\* C25: reading a principal's email, username or phone through the plaintext
\* accessor returns the decryption of the ciphertext the instance currently
\* holds (None when it holds none), also after the ciphertext of a loaded
\* instance has been reassigned.
C25_AccessorReturnsCurrentPlaintext ==
    orm_user # NoObject =>
        /\ email_with_cache(orm_user) = Plain(orm_user.email_encrypted)
        /\ username_with_cache(orm_user) = Plain(orm_user.username_encrypted)
        /\ phone_with_cache(orm_user) = Plain(orm_user.phone_encrypted)

\* a request in flight whose recorded user context is the current one
HoldsContext(r) ==
    /\ calls[r].pc # "idle"
    /\ calls[r].recorded # None
    /\ current_user_id = calls[r].recorded

\* C26: requests handled concurrently share no mutable in-memory state: the
\* user context a request logs is one it recorded itself, and the user context
\* recorded for a request in flight is overwritten or cleared by that request
\* only.
C26_NoSharedUserContext ==
    /\ [](\A r \in Reqs :
            calls[r].user_context \in {None, calls[r].recorded})
    /\ [][\A r \in Reqs :
            (HoldsContext(r) /\ current_user_id' # current_user_id)
                => calls'[r] # calls[r]]_vars

\* C27: for every configured secret string key preparation hands the cipher
\* a well-formed key: a string that already is the url-safe base64 encoding of
\* 32 bytes is passed through unchanged, every other string is replaced by the
\* base64 encoding of its SHA-256 digest.
C27_PreparedKeyWellFormed ==
    security_manager.fernet # NotBuilt =>
        LET key_string == security_manager.key_string
            key == security_manager.fernet.key
        IN  /\ decodes_to_32_bytes(key)
            /\ decodes_to_32_bytes(key_string) => key = key_string
            /\ ~decodes_to_32_bytes(key_string) => key = b64_sha256(key_string)

\* the hash and ciphertext columns a parameter of edit_user governs
Supplied(before, after, value, hash, cipher) ==
    IF value = None
    THEN after[hash] = before[hash] /\ after[cipher] = before[cipher]
    ELSE after[hash] = hash_value(value) /\ after[cipher] = encrypt_value(value)

\* C28: a successful edit_user changes only the caller's own record and only
\* the fields supplied as non-None (email, username and phone each with hash
\* and ciphertext together, and is_botanist); the omitted fields, the password
\* digest, is_active and id of that record, and every other principal, plant
\* and comment are unchanged.
C28_EditUserFrame ==
    [][( /\ resp'.op = "edit_user"
         /\ resp'.status = 200 ) =>
          LET args == resp'.args IN
          /\ args.user_id = resp'.caller
          /\ plants' = plants
          /\ comments' = comments
          /\ {u \in users : u.id # args.user_id}
                = {v \in users' : v.id # args.user_id}
          /\ \E u \in users, v \in users' :
                /\ u.id = args.user_id
                /\ v.id = args.user_id
                /\ {w \in users' : w.id = args.user_id} = {v}
                /\ v.hashed_password = u.hashed_password
                /\ v.is_active = u.is_active
                /\ Supplied(u, v, args.email, "email_hash", "email_encrypted")
                /\ Supplied(u, v, args.username, "username_hash",
                            "username_encrypted")
                /\ Supplied(u, v, args.phone, "phone_hash", "phone_encrypted")
                /\ v.is_botanist = IF args.is_botanist = None THEN u.is_botanist
                                   ELSE args.is_botanist = "true"
      ]_vars

\* an edit_user that supplied an email, a new phone and is_botanist and
\* omitted the username has succeeded, next to another principal and a plant
C28_Witness ==
    /\ resp.op = "edit_user"
    /\ resp.status = 200
    /\ resp.args.email = "b@x.com"
    /\ resp.args.username = None
    /\ resp.args.phone = "0622"
    /\ resp.args.is_botanist = "true"
    /\ Cardinality(users) = 2
    /\ plants # {}
    /\ \E u \in users :
          /\ u.id = resp.caller
          /\ EmailOf(u) = "b@x.com"
          /\ UsernameOf(u) = "bob"
          /\ PhoneOf(u) = "0622"
          /\ u.is_botanist

\* C29: in every reachable state each plant's in_care_id is either null or the
\* id of a stored principal, after any sequence of create_plant, update_plant,
\* start-care, end-care and delete_user operations.
C29_CaretakerIsStored ==
    \A p \in plants : p.in_care_id = NoId \/ UsersById(p.in_care_id) # {}

\* delete_user has just been refused for a principal who is the caretaker of
\* a plant
C29_Witness ==
    /\ resp.op = "delete_user"
    /\ resp.fault = "IntegrityError"
    /\ \E p \in plants : p.in_care_id = resp.args.id
    /\ UsersById(resp.args.id) # {}

\* C30: in every reachable state each stored comment refers to a stored plant
\* and to a stored principal as its author: deleting a plant or a principal
\* removes the comments attached to it, and create_comment on a non-existent
\* plant returns 404 'Plant not found' and stores nothing.
C30_CommentsReferToStoredRows ==
    /\ [](\A c \in comments :
            /\ PlantsById(c.plant_id) # {}
            /\ UsersById(c.user_id) # {})
    /\ [][ /\ \A p \in plants : (\A q \in plants' : q.id # p.id) =>
                 \A c \in comments : c.plant_id = p.id => c \notin comments'
           /\ \A u \in users : (\A v \in users' : v.id # u.id) =>
                 \A c \in comments : c.user_id = u.id => c \notin comments'
           /\ ( /\ resp'.op = "create_comment"
                /\ resp'.caller # NoId
                /\ PlantsById(resp'.args.plant_id) = {} ) =>
                   /\ resp'.status = 404
                   /\ resp'.body = [detail |-> "Plant not found"]
                   /\ comments' = comments
         ]_vars

\* a plant that carried a comment has just been deleted, and the comment
\* with it
C30_Witness ==
    /\ resp.op = "delete_plant"
    /\ resp.status = 200
    /\ plants = {}
    /\ comments = {}
    /\ nextCommentId > 1

====
